---- MODULE Spec2Model ----
(***************************************************************************)
(* play_math.ipynb: the addition dataset (AdditionDataset) and the exam    *)
(* harness (give_exam) of the notebook, as a state machine.                *)
(*                                                                         *)
(* The notebook runs top to bottom: the global ndigit is set, the two      *)
(* datasets are constructed, items are looked up, a model is trained and   *)
(* exams are given. A raised exception ends the run.                       *)
(*                                                                         *)
(* numpy, torch and mingpt are libraries outside the repository. They are  *)
(* modelled by their contracts: RandomState(seed).permutation(n) is a      *)
(* permutation of 0..n-1 fixed by the seed, array indexing follows numpy's *)
(* rules (negative indices count from the end), sample() appends exactly   *)
(* `steps` tokens of the vocabulary to the prefix it is given.             *)
(*                                                                         *)
(* Spec is the notebook. SpecDecode is give_exam's decoding of one row on  *)
(* its own, handed outputs that hold fewer or more tokens than asked for.  *)
(***************************************************************************)
EXTENDS Integers, Sequences, FiniteSets, TLC

\* ---------------------------------------------------------------- constants

\* ndigit = 2: the digit width the notebook is run with. The model covers
\* every width from -1 up to it.
NDIGIT == 2

\* self.vocab_size = 10
vocab_size == 10

\* min(int(num*0.2), 1000): the cap of the test split
TEST_CAP == 1000

\* y[:self.ndigit*2-1] = -100
IGNORE_INDEX == -100

\* give_exam(dataset, batch_size=32, ...): the default batch size
DEFAULT_BATCH_SIZE == 32

\* give_exam(train_dataset, batch_size=1024, ...): the notebook's batch size
NOTEBOOK_BATCH_SIZE == 1024

\* max_batches is drawn from -1 .. MaxBatches
MaxBatches == 2

\* a sampled output holds up to MaxExtraTokens tokens fewer or more than asked
MaxExtraTokens == 1

\* the rows of the test split whose sampled output is decoded on its own
DecodeRows == 2

NdigitInputs == (0 - 1) .. NDIGIT

BatchSizes == {DEFAULT_BATCH_SIZE, NOTEBOOK_BATCH_SIZE}

MaxBatchesInputs == (0 - 1) .. MaxBatches

\* What RandomState(1337).permutation yields is fixed by numpy, not by the
\* notebook. The model draws it once from a family of permutations of
\* 0..num-1: i |-> (mult*i + off) mod num, mult coprime to 10. The member
\* (3, 1717) agrees with the notebook's recorded output train_dataset[0] =
\* 47 + 17 for ndigit = 2 (perm[1000] = 4717); (1, 0) is the identity.
RngFamily == {[mult |-> 1, off |-> 0], [mult |-> 3, off |-> 1717]}

\* The trained network is fixed by training. The model draws it from a family:
\* it answers a + b, except on the problems whose index is a multiple of
\* `period` (period > 0), where it answers a + b + delta.
GptFamily == {[period |-> 0, delta |-> 0], [period |-> 9, delta |-> 1],
              [period |-> 7, delta |-> 11]}

None == [none |-> TRUE]

VARIABLES rng, np_random, gpt, ndigit, train_dataset, test_dataset, pc, err, call, item,
          exam, b, results, rows, stdout, score

vars == <<rng, np_random, gpt, ndigit, train_dataset, test_dataset, pc, err, call, item,
          exam, b, results, rows, stdout, score>>

\* ------------------------------------------------------------------ helpers

Min(m, n) == IF m <= n THEN m ELSE n

\* python's s[lo:hi] on a sequence, 0-based, hi exclusive, clipped to the sequence
Slice(s, lo, hi) ==
    LET l == IF lo < 0 THEN 0 ELSE lo
        h == Min(hi, Len(s))
    IN  IF h <= l THEN << >> ELSE SubSeq(s, l + 1, h)

\* python's s[-n:] for n >= 1
LastN(s, n) == IF n >= Len(s) THEN s ELSE SubSeq(s, Len(s) - n + 1, Len(s))

\* sum of s[lo..hi]
RECURSIVE SumRange(_, _, _)
SumRange(s, lo, hi) ==
    IF lo > hi THEN 0
    ELSE IF lo = hi THEN s[lo]
    ELSE LET mid == (lo + hi) \div 2
         IN  SumRange(s, lo, mid) + SumRange(s, mid + 1, hi)

\* np.sum / tensor.sum(1) of one row
Sum(s) == SumRange(s, 1, Len(s))

\* ----------------------------------------------------------- AdditionDataset

\* r.permutation(num)[i], 0-based
permutation(r, num, i) == (r.mult * i + r.off) % num

\* the state of numpy's global generator after set_seed(42)
GlobalSeeded == [mult |-> 7, off |-> 42]

\* the generator drawn from, were it numpy's global one: every draw advances it
RandomState_global(seeded, glob) ==
    [r |-> glob, np_random |-> [mult |-> glob.mult, off |-> glob.off + 1]]

\* r = np.random.RandomState(1337): a generator of its own, in the state
\* `seeded` that the seed fixes; numpy's global generator glob is left alone
RandomState(seeded, glob) == [r |-> seeded, np_random |-> glob]

\* AdditionDataset.__init__ with the train split starting one entry early
AdditionDataset_init_overlap(r, nd, split) ==
    LET num == (10 ^ nd) ^ 2
        num_test == Min((num * 2) \div 10, TEST_CAP)
    IN  [split |-> split,
         ndigit |-> nd,
         vocab_size |-> vocab_size,
         block_size |-> nd + nd + nd + 1 - 1,
         ixes |-> IF split = "test"
                  THEN [perm |-> r, num |-> num, start |-> 0, stop |-> num_test]
                  ELSE [perm |-> r, num |-> num, start |-> num_test - 1, stop |-> num]]

\* AdditionDataset.__init__ without the cap of 1000 on the test split
AdditionDataset_init_uncapped(r, nd, split) ==
    LET num == (10 ^ nd) ^ 2
        num_test == (num * 2) \div 10
    IN  [split |-> split,
         ndigit |-> nd,
         vocab_size |-> vocab_size,
         block_size |-> nd + nd + nd + 1 - 1,
         ixes |-> IF split = "test"
                  THEN [perm |-> r, num |-> num, start |-> 0, stop |-> num_test]
                  ELSE [perm |-> r, num |-> num, start |-> num_test, stop |-> num]]

\* AdditionDataset.__init__ for ndigit >= 0, with r the generator it draws perm
\* from. self.ixes is a slice of perm: a view [start, stop) of the permutation
\* of 0..num-1 that r yields.
AdditionDataset_init(r, nd, split) ==
    LET num == (10 ^ nd) ^ 2
        num_test == Min((num * 2) \div 10, TEST_CAP)
    IN  [split |-> split,
         ndigit |-> nd,
         vocab_size |-> vocab_size,
         block_size |-> nd + nd + nd + 1 - 1,
         ixes |-> IF split = "test"
                  THEN [perm |-> r, num |-> num, start |-> 0, stop |-> num_test]
                  ELSE [perm |-> r, num |-> num, start |-> num_test, stop |-> num]]

\* self.ixes.size
AdditionDataset_len(self) == self.ixes.stop - self.ixes.start

\* self.ixes[i] read from the whole permutation instead of the split's slice
ixes_at_unsliced(r, self, i) == permutation(r, self.ixes.num, i)

\* self.ixes[i] for 0 <= i < size
ixes_at(r, self, i) == permutation(r, self.ixes.num, self.ixes.start + i)

\* the characters '0'..'9'
DigitChars == <<"0", "1", "2", "3", "4", "5", "6", "7", "8", "9">>

\* '%d' % n with the digits least significant first
RECURSIVE FormatD_reversed(_)
FormatD_reversed(n) ==
    IF n < 10 THEN <<DigitChars[n + 1]>>
    ELSE <<DigitChars[(n % 10) + 1]>> \o FormatD_reversed(n \div 10)

\* '%d' % n for n >= 0: the decimal digits of n, most significant first
RECURSIVE FormatD(_)
FormatD(n) ==
    IF n < 10 THEN <<DigitChars[n + 1]>>
    ELSE FormatD(n \div 10) \o <<DigitChars[(n % 10) + 1]>>

\* no padding at all
ZeroPad_none(s, w) == s

\* zero-padding on the left up to width w; a longer string is left as it is
RECURSIVE ZeroPad(_, _)
ZeroPad(s, w) == IF Len(s) >= w THEN s ELSE ZeroPad(<<"0">> \o s, w)

\* '%0wd' % n
Format0D(w, n) == ZeroPad(FormatD(n), w)

\* int(s) of one character
CharToInt(ch) == (CHOOSE k \in 1..10 : DigitChars[k] = ch) - 1

\* an index check that rejects every negative index
OutOfBounds_nowrap(idx, size) == idx >= size \/ idx < 0

\* self.ixes[idx] raises IndexError: numpy accepts -size <= idx < size
OutOfBounds(idx, size) == idx >= size \/ idx < 0 - size

\* a = idx // nd; b = idx % nd; c = a + b
Problem(ix, nd) == [a |-> ix \div nd, b |-> ix % nd, c |-> (ix \div nd) + (ix % nd)]

\* f'%0{ndigit}d%0{ndigit}d%0{ndigit+1}d' % (a,b,c)
Render(ndig, a, bb, c) ==
    Format0D(ndig, a) \o Format0D(ndig, bb) \o Format0D(ndig + 1, c)

\* y[:n] = -100 with n = ndigit*2: one position too many
MaskTargets_wide(y, ndig) ==
    LET n == ndig * 2
        upto == IF n < 0 THEN Len(y) + n ELSE Min(n, Len(y))
    IN  [k \in 1..Len(y) |-> IF k <= upto THEN IGNORE_INDEX ELSE y[k]]

\* y[:n] = -100 with n = ndigit*2-1; a negative n counts from the end
MaskTargets(y, ndig) ==
    LET n == ndig * 2 - 1
        upto == IF n < 0 THEN Len(y) + n ELSE Min(n, Len(y))
    IN  [k \in 1..Len(y) |-> IF k <= upto THEN IGNORE_INDEX ELSE y[k]]

\* AdditionDataset.__getitem__: the locals at return, or the exception raised
AdditionDataset_getitem(r, self, idx) ==
    LET size == AdditionDataset_len(self)
    IN  IF OutOfBounds(idx, size)
        THEN [raised |-> "IndexError"]
        ELSE LET pos == IF idx < 0 THEN idx + size ELSE idx
                 ix == ixes_at(r, self, pos)
                 p == Problem(ix, 10 ^ self.ndigit)
                 render == Render(self.ndigit, p.a, p.b, p.c)
                 dix == [k \in 1..Len(render) |-> CharToInt(render[k])]
                 x == Slice(dix, 0, Len(dix) - 1)
                 y == MaskTargets(Slice(dix, 1, Len(dix)), self.ndigit)
             IN  [raised |-> "none", idx |-> ix, a |-> p.a, b |-> p.b, c |-> p.c,
                  dix |-> dix, x |-> x, y |-> y]

\* ------------------------------------------------------------------ actions

Init ==
    /\ rng \in RngFamily
    /\ np_random = GlobalSeeded
    /\ gpt = None
    /\ ndigit \in NdigitInputs
    /\ train_dataset = None
    /\ test_dataset = None
    /\ pc = "start"
    /\ err = "none"
    /\ call = None
    /\ item = None
    /\ exam = None
    /\ b = 0
    /\ results = << >>
    /\ rows = << >>
    /\ stdout = << >>
    /\ score = None

\* train_dataset = AdditionDataset(ndigit=ndigit, split='train')
\* test_dataset = AdditionDataset(ndigit=ndigit, split='test')
\* For ndigit < 0, 10**ndigit is a float and r.permutation(num) raises inside
\* numpy (IndexError or TypeError, by numpy version): no dataset object comes
\* to exist and the run ends.
CreateDatasets ==
    /\ pc = "start"
    /\ IF ndigit < 0
       THEN /\ err' \in {"IndexError", "TypeError"}
            /\ pc' = "error"
            /\ UNCHANGED <<np_random, train_dataset, test_dataset>>
       ELSE LET r1 == RandomState(rng, np_random)
                r2 == RandomState(rng, r1.np_random)
            IN  /\ train_dataset' = AdditionDataset_init(r1.r, ndigit, "train")
                /\ test_dataset' = AdditionDataset_init(r2.r, ndigit, "test")
                /\ np_random' = r2.np_random
                /\ pc' = "ready"
                /\ err' = "none"
    /\ UNCHANGED <<rng, gpt, ndigit, call, item, exam, b, results, rows, stdout, score>>

Dataset(name) == IF name = "test" THEN test_dataset ELSE train_dataset

\* dataset[idx], as in the notebook's cell train_dataset[0]: one lookup, of
\* either split, at any index from one below -len to len
GetItem ==
    /\ pc = "ready"
    /\ \E name \in {"train", "test"} :
         LET self == Dataset(name)
             size == AdditionDataset_len(self)
         IN  \E idx \in (0 - size - 1) .. size :
               LET r == AdditionDataset_getitem(self.ixes.perm, self, idx)
               IN  /\ call' = [split |-> name, idx |-> idx]
                   /\ err' = r.raised
                   /\ pc' = IF r.raised # "none" THEN "error" ELSE "looked"
                   /\ item' = IF r.raised # "none" THEN None ELSE r
    /\ UNCHANGED <<rng, np_random, gpt, ndigit, train_dataset, test_dataset,
                   exam, b, results, rows, stdout, score>>

\* ---------------------------------------------------------------- give_exam

\* the place values without the reversal [::-1]
factors_unreversed(nd) == [k \in 1..(nd + 1) |-> 10 ^ (k - 1)]

\* for i in range(n)][::-1] of 10**i: the place values, most significant first
factors(nd) == [k \in 1..(nd + 1) |-> 10 ^ (nd + 1 - k)]

\* (row * weights).sum(1) for one row: the elementwise product, summed
WeightedSum(row, weights) == Sum([k \in 1..Len(row) |-> row[k] * weights[k]])

\* The network's reading of a prefix of digits as one number
RECURSIVE Horner(_, _)
Horner(digits, acc) ==
    IF digits = << >> THEN acc ELSE Horner(Tail(digits), 10 * acc + Head(digits))

\* mingpt.utils.sample(model, x, steps) for one row: the prefix followed by
\* `steps` tokens of the vocabulary, chosen greedily by the trained network
sample(model, prefix, steps) ==
    LET half == Len(prefix) \div 2
        a == Horner(Slice(prefix, 0, half), 0)
        bb == Horner(Slice(prefix, half, Len(prefix)), 0)
        slip == model.period > 0 /\ Horner(prefix, 0) % model.period = 0
        v == (a + bb + (IF slip THEN model.delta ELSE 0)) % (vocab_size ^ steps)
    IN  prefix \o [k \in 1..steps |-> (v \div (vocab_size ^ (steps - k))) % vocab_size]

\* The body of give_exam's loop for one row after the call of sample: the
\* slice of the last ndigit+1 tokens and the decoding. There is no check of
\* how many tokens d1d2d3 holds.
ExamDecode(nd, x, d1d2, d1d2d3) ==
    LET d3 == LastN(d1d2d3, nd + 1)
        f == factors(nd)
        d1i == WeightedSum(Slice(d1d2, 0, nd), Tail(f))
        d2i == WeightedSum(Slice(d1d2, nd, nd * 2), Tail(f))
        d3i_pred == WeightedSum(d3, f)
        d3i_gt == d1i + d2i
    IN  [x |-> x, d1d2 |-> d1d2, d1d2d3 |-> d1d2d3, d3 |-> d3, d1i |-> d1i,
         d2i |-> d2i, d3i_pred |-> d3i_pred, d3i_gt |-> d3i_gt,
         correct |-> (d3i_pred = d3i_gt)]

\* The body of give_exam's loop for one row x of the batch: its locals
ExamRow(model, nd, x) ==
    ExamDecode(nd, x, Slice(x, 0, nd * 2), sample(model, Slice(x, 0, nd * 2), nd + 1))

\* DataLoader(dataset, batch_size): the number of rows of batch number bi
\* (0-based); the last batch may be short
LoaderBatchLen(dataset, batch_size, bi) ==
    Min((bi + 1) * batch_size, AdditionDataset_len(dataset)) - bi * batch_size

\* DataLoader(dataset, batch_size): row k (1-based) of batch number bi, the x
\* of the dataset's items in dataset order
LoaderRow(r, dataset, batch_size, bi, k) ==
    AdditionDataset_getitem(r, dataset, bi * batch_size + k - 1).x

\* the line printed for a row that is not correct
Diagnostic(row) ==
    [d1i |-> row.d1i, d2i |-> row.d2i, d3i_pred |-> row.d3i_pred,
     d3i_gt |-> row.d3i_gt, judge |-> IF row.correct THEN "YEP!!!" ELSE "NOPE"]

\* the test of `if not correct[i]` without its `not`
NotCorrect_flipped(row) == row.correct

\* if not correct[i]
NotCorrect(row) == ~row.correct

\* trainer.train(): fixes the network. It reads the datasets and leaves them
\* as they are; the value of the earlier lookup cell is no longer held.
Train ==
    /\ pc \in {"ready", "looked"}
    /\ gpt' \in GptFamily
    /\ pc' = "trained"
    /\ call' = None
    /\ item' = None
    /\ UNCHANGED <<rng, np_random, ndigit, train_dataset, test_dataset, err,
                   exam, b, results, rows, stdout, score>>

\* give_exam(dataset, batch_size, max_batches): entry, up to the loop
GiveExam ==
    /\ pc \in {"trained", "done"}
    /\ \E name \in {"train", "test"}, batch_size \in BatchSizes,
          max_batches \in MaxBatchesInputs :
         exam' = [dataset |-> name, batch_size |-> batch_size,
                  max_batches |-> max_batches]
    /\ results' = << >>
    /\ b' = 0
    /\ rows' = << >>
    /\ stdout' = << >>
    /\ score' = None
    /\ pc' = "exam"
    /\ UNCHANGED <<rng, np_random, gpt, ndigit, train_dataset, test_dataset, err, call, item>>

\* one iteration of `for b, (x, y) in enumerate(loader)`: b is the number of
\* the batch the loader yields next
ExamBatch ==
    /\ pc = "exam"
    /\ b * exam.batch_size < AdditionDataset_len(Dataset(exam.dataset))
    /\ rows' = [i \in 1..LoaderBatchLen(Dataset(exam.dataset), exam.batch_size, b) |->
                  ExamRow(gpt, ndigit,
                          LoaderRow(Dataset(exam.dataset).ixes.perm, Dataset(exam.dataset),
                                    exam.batch_size, b, i))]
    /\ results' = results \o [i \in 1..Len(rows') |-> IF rows'[i].correct THEN 1 ELSE 0]
    /\ stdout' = LET wrong == SelectSeq(rows', NotCorrect)
                 IN  stdout \o [i \in 1..Len(wrong) |-> Diagnostic(wrong[i])]
    /\ pc' = IF exam.max_batches >= 0 /\ b + 1 >= exam.max_batches
             THEN "break" ELSE "exam"
    /\ b' = b + 1
    /\ UNCHANGED <<rng, np_random, gpt, ndigit, train_dataset, test_dataset, err, call, item,
                   exam, score>>

\* the loop is left, by break or because the loader is exhausted:
\* print("final score: %d/%d ..." % (np.sum(results), len(results), ...))
FinalScore ==
    /\ \/ pc = "break"
       \/ /\ pc = "exam"
          /\ b * exam.batch_size >= AdditionDataset_len(Dataset(exam.dataset))
    /\ score' = [correct |-> Sum(results), total |-> Len(results)]
    /\ pc' = "done"
    /\ UNCHANGED <<rng, np_random, gpt, ndigit, train_dataset, test_dataset, err, call, item,
                   exam, b, results, rows, stdout>>

\* The cell that constructs the two datasets is run again, after a lookup or
\* after an exam: both objects are constructed anew, with generators of their
\* own.
RecreateDatasets ==
    /\ pc \in {"looked", "done"}
    /\ LET r1 == RandomState(rng, np_random)
           r2 == RandomState(rng, r1.np_random)
       IN  /\ train_dataset' = AdditionDataset_init(r1.r, ndigit, "train")
           /\ test_dataset' = AdditionDataset_init(r2.r, ndigit, "test")
           /\ np_random' = r2.np_random
    /\ pc' = "recreated"
    /\ UNCHANGED <<rng, gpt, ndigit, err, call, item, exam, b, results, rows, stdout,
                   score>>

\* the lookup cell is run again, with the same split and index, on the datasets
\* constructed anew
LookupAgain ==
    /\ pc = "recreated"
    /\ call # None
    /\ LET r == AdditionDataset_getitem(Dataset(call.split).ixes.perm,
                                        Dataset(call.split), call.idx)
       IN  /\ err' = r.raised
           /\ item' = IF r.raised # "none" THEN None ELSE r
    /\ pc' = "relooked"
    /\ UNCHANGED <<rng, np_random, gpt, ndigit, train_dataset, test_dataset, call,
                   exam, b, results, rows, stdout, score>>

Next ==
    \/ CreateDatasets
    \/ GetItem
    \/ Train
    \/ GiveExam
    \/ ExamBatch
    \/ FinalScore
    \/ RecreateDatasets
    \/ LookupAgain

Spec == Init /\ [][Next]_vars

\* ------------------------------------------- the decoding of a sampled output

\* the tokens a sampled output may hold
TokenInputs == {0, 1, 5}

\* The continuations a network may hand back when asked for `steps` tokens:
\* give_exam takes for granted that there are exactly `steps` of them; here
\* there may be up to MaxExtraTokens fewer or more.
SampledTokens(steps) ==
    UNION {[1..n -> TokenInputs] :
             n \in (IF steps > MaxExtraTokens THEN steps - MaxExtraTokens ELSE 0)
                    .. (steps + MaxExtraTokens)}

\* the datasets are constructed, for a width ndigit >= 1
InitDecode ==
    /\ rng \in RngFamily
    /\ np_random = GlobalSeeded
    /\ gpt = None
    /\ ndigit \in 1..NDIGIT
    /\ train_dataset = AdditionDataset_init(RandomState(rng, np_random).r, ndigit, "train")
    /\ test_dataset = AdditionDataset_init(RandomState(rng, np_random).r, ndigit, "test")
    /\ pc = "decode"
    /\ err = "none"
    /\ call = None
    /\ item = None
    /\ exam = None
    /\ b = 0
    /\ results = << >>
    /\ rows = << >>
    /\ stdout = << >>
    /\ score = None

\* give_exam's loop body on one row of the test split, with d1d2d3 the prefix
\* followed by the tokens handed back
DecodeSampled ==
    /\ pc = "decode"
    /\ \E idx \in 0..(DecodeRows - 1), gen \in SampledTokens(ndigit + 1) :
         LET x == AdditionDataset_getitem(test_dataset.ixes.perm, test_dataset, idx).x
             d1d2 == Slice(x, 0, ndigit * 2)
         IN  rows' = <<ExamDecode(ndigit, x, d1d2, d1d2 \o gen)>>
    /\ results' = results \o [i \in 1..Len(rows') |-> IF rows'[i].correct THEN 1 ELSE 0]
    /\ stdout' = LET wrong == SelectSeq(rows', NotCorrect)
                 IN  stdout \o [i \in 1..Len(wrong) |-> Diagnostic(wrong[i])]
    /\ pc' = "decoded"
    /\ b' = b + 1
    /\ UNCHANGED <<rng, np_random, gpt, ndigit, train_dataset, test_dataset, err, call, item,
                   exam, score>>

NextDecode == DecodeSampled

SpecDecode == InitDecode /\ [][NextDecode]_vars

\* ------------------------------------------------------------------- claims

HaveDatasets == train_dataset # None /\ test_dataset # None

\* the set of problem indices of a split
IxesSet(self) == {ixes_at(rng, self, i) : i \in 0..(AdditionDataset_len(self) - 1)}

\* C1: for ndigit >= 1 the train and the test split built from the same
\* permutation are disjoint, neither repeats a problem, and together they are
\* exactly the (10^ndigit)^2 problem indices. Stated of the state the
\* construction leaves; no action changes a dataset afterwards.
C1_SplitsPartition ==
    (pc = "ready" /\ ndigit >= 1) =>
        LET tr == IxesSet(train_dataset)
            te == IxesSet(test_dataset)
            num == (10 ^ ndigit) ^ 2
        IN  /\ tr \cap te = {}
            /\ tr \cup te = 0..(num - 1)
            /\ Cardinality(tr) = AdditionDataset_len(train_dataset)
            /\ Cardinality(te) = AdditionDataset_len(test_dataset)

C1_Witness ==
    /\ pc = "ready"
    /\ ndigit = NDIGIT
    /\ AdditionDataset_len(train_dataset) > 0
    /\ AdditionDataset_len(test_dataset) > 0
    /\ rng.mult # 1

\* the value of a row of digits read most significant first, place by place
PlaceValue(digits) ==
    Sum([k \in 1..Len(digits) |-> digits[k] * 10 ^ (Len(digits) - k)])

\* the digit of n at place 10^e
DigitAt(n, e) == (n \div (10 ^ e)) % 10

Looked == pc = "looked" /\ ndigit >= 1

\* C2: decoding the sequence __getitem__ encodes (the returned x followed by
\* the last target), as give_exam decodes it with its factors, recovers
\* (a, b, a + b) of the problem, with 0 <= a, b < 10^ndigit.
C2_RoundTrip ==
    Looked =>
        LET seq == item.x \o <<item.y[Len(item.y)]>>
            f == factors(ndigit)
            a == item.idx \div (10 ^ ndigit)
            bb == item.idx % (10 ^ ndigit)
        IN  /\ WeightedSum(Slice(seq, 0, ndigit), Tail(f)) = a
            /\ WeightedSum(Slice(seq, ndigit, 2 * ndigit), Tail(f)) = bb
            /\ WeightedSum(Slice(seq, 2 * ndigit, Len(seq)), f) = a + bb
            /\ Slice(seq, 2 * ndigit, Len(seq)) = LastN(seq, ndigit + 1)

\* the docstring's 85 + 50 = 135
C2_Witness ==
    /\ Looked
    /\ ndigit = 2
    /\ item.a = 85
    /\ item.b = 50
    /\ item.x \o <<item.y[Len(item.y)]>> = <<8, 5, 5, 0, 1, 3, 5>>

\* C3: for ndigit >= 1 the encoded sequence has exactly 3*ndigit + 1 elements,
\* each a digit 0..9; the sum needs at most ndigit + 1 digits and the model
\* input has 3*ndigit = block_size elements.
C3_FixedLength ==
    Looked =>
        /\ Len(item.dix) = 3 * ndigit + 1
        /\ \A k \in 1..Len(item.dix) : item.dix[k] \in 0..9
        /\ item.c < 10 ^ (ndigit + 1)
        /\ Len(item.x) = 3 * ndigit
        /\ Len(item.x) = Dataset(call.split).block_size

\* a carry into the extra digit: 99 + 99 = 198
C3_Witness ==
    /\ Looked
    /\ ndigit = 2
    /\ item.c = 198
    /\ Len(item.dix) = 7

\* C4: x is the encoded sequence without its last token; y is the encoded
\* sequence without its first token, with the 2*ndigit - 1 positions of the a/b
\* portion set to -100 and the other ndigit + 1 positions the digits of c.
\* For ndigit = 2, a = 6, b = 39: x = [0,6,3,9,0,4], y = [-100,-100,-100,0,4,5].
C4_InputTarget ==
    Looked =>
        /\ Len(item.dix) >= 1
        /\ item.x = SubSeq(item.dix, 1, Len(item.dix) - 1)
        /\ Len(item.y) = Len(item.dix) - 1
        /\ \A k \in 1..(2 * ndigit - 1) : item.y[k] = 0 - 100
        /\ \A j \in 0..ndigit : item.y[2 * ndigit + j] = DigitAt(item.c, ndigit - j)
        /\ \A j \in 0..ndigit : item.y[2 * ndigit + j] = item.dix[2 * ndigit + j + 1]
        /\ \A k \in 1..ndigit : item.x[k] = DigitAt(item.a, ndigit - k)
        /\ \A k \in 1..ndigit : item.x[ndigit + k] = DigitAt(item.b, ndigit - k)
        /\ (ndigit = 2 /\ item.a = 6 /\ item.b = 39) =>
               /\ item.x = <<0, 6, 3, 9, 0, 4>>
               /\ item.y = <<0 - 100, 0 - 100, 0 - 100, 0, 4, 5>>

C4_Witness ==
    /\ Looked
    /\ ndigit = 2
    /\ item.a = 6
    /\ item.b = 39
    /\ item.y = <<0 - 100, 0 - 100, 0 - 100, 0, 4, 5>>

\* C5: for ndigit >= 1 the test split holds min(0.2 * (10^ndigit)^2, 1000)
\* problems and the train split the other (10^ndigit)^2 - that many.
C5_SplitSizes ==
    (HaveDatasets /\ ndigit >= 1) =>
        LET num == (10 ^ ndigit) ^ 2
            n_test == AdditionDataset_len(test_dataset)
        IN  /\ IF 2 * num <= 10 * 1000 THEN 10 * n_test = 2 * num ELSE n_test = 1000
            /\ AdditionDataset_len(train_dataset) = num - n_test

\* the cap applies: 1000 of 10000, not 2000
C5_Witness ==
    /\ HaveDatasets
    /\ ndigit = 2
    /\ AdditionDataset_len(test_dataset) = 1000
    /\ AdditionDataset_len(train_dataset) = 9000

InExam == pc \in {"exam", "break", "done"} /\ ndigit >= 1

\* C6: in give_exam a row is marked correct if and only if its ndigit + 1
\* predicted digits d[0..ndigit], the continuation of the 2*ndigit-digit
\* prefix, satisfy sum_i d[i] * 10^(ndigit - i) = a + b, with a and b the
\* values of the two halves of the prefix.
C6_CorrectIff ==
    InExam =>
        \A i \in 1..Len(rows) :
            LET row == rows[i]
                a == PlaceValue(SubSeq(row.x, 1, ndigit))
                bb == PlaceValue(SubSeq(row.x, ndigit + 1, 2 * ndigit))
                d == row.d3
            IN  /\ Len(d) = ndigit + 1
                /\ row.d1d2 = SubSeq(row.x, 1, 2 * ndigit)
                /\ row.correct <=>
                     (Sum([k \in 1..(ndigit + 1) |-> d[k] * 10 ^ (ndigit - (k - 1))]) = a + bb)

\* one batch holding a row judged correct and a row judged incorrect
C6_Witness ==
    /\ InExam
    /\ ndigit = 2
    /\ \E i, j \in 1..Len(rows) :
         /\ rows[i].correct
         /\ ~rows[j].correct
         /\ rows[j].d3i_gt >= 100

DiagTuple(rec) == <<rec.d1i, rec.d2i, rec.d3i_pred, rec.d3i_gt>>

IsZero(r) == r = 0

IsOne(r) == r = 1

IsWrongRow(row) == row.d3i_pred # row.d3i_gt

\* the newest lines of stdout are the diagnostics of the rows w, in their order
NewestLinesAre(w) ==
    /\ Len(w) <= Len(stdout)
    /\ \A k \in 1..Len(w) :
         DiagTuple(stdout[Len(stdout) - Len(w) + k]) =
            <<w[k].d1i, w[k].d2i, w[k].d3i_pred, w[k].d3i_gt>>

\* C7: during give_exam a diagnostic (a, b, predicted, expected) is printed for
\* a row if and only if its prediction is incorrect: after each batch the
\* lines printed so far are as many as the incorrect results so far and the
\* newest of them are those of the batch's incorrect rows, in order. The examined
\* problems are those of the b batches taken; the final score reports
\* correct = the number of results judged correct and total = the number of
\* examined problems. Predicted [0,4,6] for 6 + 39 prints (6, 39, 46, 45);
\* predicted [0,4,5] prints nothing.
C7_Diagnostics ==
    InExam =>
        /\ Len(stdout) = Len(SelectSeq(results, IsZero))
        /\ Len(results) = Min(AdditionDataset_len(Dataset(exam.dataset)),
                              b * exam.batch_size)
        /\ Len(rows) <= Len(results)
        /\ \A i \in 1..Len(rows) :
             results[Len(results) - Len(rows) + i] =
                IF rows[i].d3i_pred = rows[i].d3i_gt THEN 1 ELSE 0
        /\ NewestLinesAre(SelectSeq(rows, IsWrongRow))
        /\ \A i \in 1..Len(rows) :
             rows[i].d1d2 = <<0, 6, 3, 9>> =>
                /\ rows[i].d3 = <<0, 4, 6>> =>
                      \E k \in 1..Len(stdout) : DiagTuple(stdout[k]) = <<6, 39, 46, 45>>
                /\ rows[i].d3 = <<0, 4, 5>> =>
                      \A k \in 1..Len(stdout) :
                         ~(stdout[k].d1i = 6 /\ stdout[k].d2i = 39)
        /\ pc = "done" =>
             /\ score.total = Len(results)
             /\ score.correct = Len(SelectSeq(results, IsOne))
             /\ score.correct + Len(stdout) = score.total

\* an exam that printed (6, 39, 46, 45) and ended with some but not all correct
C7_Witness ==
    /\ pc = "done"
    /\ ndigit = 2
    /\ \E k \in 1..Len(stdout) : DiagTuple(stdout[k]) = <<6, 39, 46, 45>>
    /\ score.correct > 0
    /\ score.correct < score.total

LookedUp == Looked /\ call.idx >= 0

\* the split's entry number i of the permutation: the test split is its first
\* min(num/5, 1000) entries, the train split the rest
SplitEntry(split, i) ==
    LET num == (10 ^ ndigit) ^ 2
        n_test == Min(num \div 5, 1000)
    IN  permutation(rng, num, IF split = "test" THEN i ELSE n_test + i)

\* C8 as stated: the problem of index i is decoded from i itself,
\* a = i div 10^ndigit, b = i mod 10^ndigit, c = a + b.
C8_DecodesCallerIndex ==
    LookedUp =>
        /\ item.a = call.idx \div (10 ^ ndigit)
        /\ item.b = call.idx % (10 ^ ndigit)
        /\ item.c = item.a + item.b

\* C8 as amended: the index i is first mapped through the split's permuted
\* index list, p = ixes[i], and the problem is decoded from p:
\* a = p div 10^ndigit, b = p mod 10^ndigit, c = a + b.
C8_DecodesSplitEntry ==
    LookedUp =>
        LET p == SplitEntry(call.split, call.idx)
        IN  /\ item.a = p \div (10 ^ ndigit)
            /\ item.b = p % (10 ^ ndigit)
            /\ item.c = item.a + item.b
            /\ PlaceValue(SubSeq(item.x, 1, ndigit)) = p \div (10 ^ ndigit)
            /\ PlaceValue(SubSeq(item.x, ndigit + 1, 2 * ndigit)) = p % (10 ^ ndigit)

\* the notebook's recorded train_dataset[0]: 47 + 17 = 64
C8_Witness ==
    /\ LookedUp
    /\ ndigit = 2
    /\ call = [split |-> "train", idx |-> 0]
    /\ item.a = 47
    /\ item.b = 17
    /\ item.x = <<4, 7, 1, 7, 0, 6>>

\* C9 as stated: every index outside 0 .. len-1, every negative one included,
\* fails with IndexError and returns no pair.
C9_RejectsOutside ==
    (call # None) =>
        LET size == AdditionDataset_len(Dataset(call.split))
        IN  (call.idx < 0 \/ call.idx >= size) =>
               (pc = "error" /\ err = "IndexError" /\ item = None)

\* C9 as amended: an index idx >= len or idx < -len fails with IndexError and
\* returns no pair; an index -len <= idx < 0 does not fail, it counts from the
\* end of the split and returns the pair of entry len + idx.
C9_NumpyBounds ==
    (call # None) =>
        LET size == AdditionDataset_len(Dataset(call.split))
        IN  /\ (call.idx >= size \/ call.idx < 0 - size) =>
                  (pc = "error" /\ err = "IndexError" /\ item = None)
            /\ (call.idx < size /\ call.idx >= 0 - size) =>
                  /\ pc \in {"looked", "recreated", "relooked"}
                  /\ err = "none"
                  /\ item # None
                  /\ item.idx = SplitEntry(call.split,
                                   IF call.idx < 0 THEN size + call.idx ELSE call.idx)
                  /\ Len(item.x) = Len(item.y)

\* a negative index below -len fails, on a split that is not empty
C9_Witness ==
    /\ call # None
    /\ ndigit >= 1
    /\ call.idx = 0 - AdditionDataset_len(Dataset(call.split)) - 1
    /\ pc = "error"
    /\ err = "IndexError"

\* C10: constructing the datasets with ndigit <= 0 fails at construction, so
\* that no dataset with ndigit <= 0 ever exists.
C10_RejectsNonPositive ==
    (pc # "start" /\ ndigit <= 0) =>
        (pc = "error" /\ err # "none" /\ train_dataset = None /\ test_dataset = None)

\* C11: in the exam harness, decoding an output whose number of generated
\* tokens differs from ndigit + 1 fails with MalformedPrediction; it is never
\* sliced to its last ndigit + 1 tokens and scored.
C11_RejectsMalformed ==
    (pc = "decoded") =>
        \A i \in 1..Len(rows) :
            (Len(rows[i].d1d2d3) - Len(rows[i].d1d2) # ndigit + 1) =>
                /\ err = "MalformedPrediction"
                /\ results = << >>
                /\ stdout = << >>

\* C12: constructing the train and the test split again, with the same ndigit
\* and the same seed, gives the same split assignment (each split the same
\* slice of the same permutation), and the same lookup then gives the same
\* permuted index and the same (input, target) pair, whatever was constructed,
\* looked up, trained or examined before.
C12_Deterministic ==
    [][/\ (pc' = "recreated") =>
            /\ train_dataset' = train_dataset
            /\ test_dataset' = test_dataset
       /\ (pc' = "relooked") =>
            /\ item' = item
            /\ err' = err]_vars

C12_Witness ==
    /\ pc = "relooked"
    /\ ndigit = NDIGIT
    /\ rng.mult # 1
    /\ call.split = "train"
    /\ item # None
    /\ item.a + item.b > 99

\* C13: give_exam over N problems with batch size B, once ended, has examined
\* all N problems in ceil(N / B) batches when max_batches < 0, and at most
\* max_batches batches, exactly min(N, max_batches * B) problems, when
\* max_batches >= 0; the reported total is that number.
C13_StopsAtMaxBatches ==
    (pc = "done" /\ ndigit >= 1) =>
        LET N == AdditionDataset_len(Dataset(exam.dataset))
            B == exam.batch_size
        IN  IF exam.max_batches < 0
            THEN /\ b = (N + B - 1) \div B
                 /\ Len(results) = N
                 /\ score.total = N
            ELSE /\ b <= exam.max_batches
                 /\ Len(results) = Min(N, exam.max_batches * B)
                 /\ score.total = Min(N, exam.max_batches * B)

====
